---- MODULE Spec2Model ----
(***************************************************************************)
(* Trip expense settlement: the four-stage pipeline of                     *)
(* trip_splitter/logic.py (FX conversion -> allocations -> balances ->     *)
(* settlement) and the preview block of app/app_streamlit.py that runs it. *)
(*                                                                         *)
(* Tables (pandas DataFrames) are sequences of records, one record per     *)
(* row, in row order.  Real numbers are kept exact: a rate is the integer  *)
(* numerator of a fraction over RateDen, amounts and weights are integers, *)
(* and every rounding is numpy's round-half-to-even on the exact quotient. *)
(***************************************************************************)
EXTENDS Integers, Sequences, FiniteSets, TLC

VARIABLES
    participants,   \* input table: [Name, DefaultWeight]
    rates,          \* input table: [Date, Currency, Rate_to_Base]
    expenses,       \* input table: [ExpID, Date, Amount, Currency, Payer]
    splits,         \* input table: [ExpID, Participant, Included, WeightOverride]
    expenses_vnd,   \* expenses + Amount_Base
    allocations,    \* [ExpID, Participant, Share_Base]
    balances,       \* [Participant, Paid_Base, Owed_Base, Net_Base]
    eps,            \* tolerance passed to compute_settlement
    creditors,      \* compute_settlement's sorted working copy (running Net_Base)
    debtors,        \* compute_settlement's sorted working copy (running Net_Base)
    i,              \* cursor into debtors (0-based, as in the code)
    j,              \* cursor into creditors (0-based, as in the code)
    txns,           \* transactions emitted so far: [From, To, Amount_VND]
    iters,          \* number of completed iterations of the while loop
    produced,       \* names of the output tables bound to a value (not None)
    fx,             \* per expense row, the rates row and rate the converter applied
    use_weight,     \* per split row, the UseWeight column compute_allocations resolved
    err,            \* the exception raised, "" when none
    pc              \* position: convert, allocate, balances, settle, loop, done, error

vars == <<participants, rates, expenses, splits, expenses_vnd, allocations,
          balances, eps, creditors, debtors, i, j, txns, iters, produced, fx,
          use_weight, err, pc>>

inputs == <<participants, rates, expenses, splits>>

settleVars == <<creditors, debtors, i, j, txns, iters>>

derived == <<expenses_vnd, allocations, balances>>

-----------------------------------------------------------------------------
(* Program constants *)

BASE_CURRENCY == "VND"

DefaultEps == 1

UnknownWeight == 1

\* the "" that load_splits leaves in a blank WeightOverride cell
Blank == -1

\* rates are numerators over RateDen, so 1.0 is RateDen / RateDen
RateDen == 4

One == RateDen

-----------------------------------------------------------------------------
(* Bounds *)

MaxAmount == 5

MaxNet == 3

MaxIters == 6

MaxDate == 3

-----------------------------------------------------------------------------
(* Arithmetic helpers *)

Abs(x) == IF x < 0 THEN -x ELSE x

Min(a, b) == IF a <= b THEN a ELSE b

Range(s) == {s[k] : k \in DOMAIN s}

RECURSIVE SumOver(_, _)
SumOver(S, f) ==
    IF S = {} THEN 0
    ELSE LET x == CHOOSE y \in S : TRUE
         IN f[x] + SumOver(S \ {x}, f)

\* floor(num / den) for den > 0
FloorDiv(num, den) ==
    IF num >= 0 THEN num \div den ELSE -(((-num) + den - 1) \div den)

\* truncation instead of rounding
RoundTrunc(num, den) ==
    IF num >= 0 THEN num \div den ELSE -((-num) \div den)

\* numpy round(0) of the exact quotient num / den, den > 0: half to even
RoundHalfEven(num, den) ==
    LET q == FloorDiv(num, den)
        r == num - q * den
    IN IF 2 * r < den THEN q
       ELSE IF 2 * r > den THEN q + 1
       ELSE IF q % 2 = 0 THEN q ELSE q + 1

\* the rows of table t kept by a boolean mask, in row order
RECURSIVE SelectRows(_, _)
SelectRows(t, keep) ==
    IF t = <<>> THEN <<>>
    ELSE LET rest == SelectRows(Tail(t), [k \in 1..(Len(t) - 1) |-> keep[k + 1]])
         IN IF keep[1] THEN <<Head(t)>> \o rest ELSE rest

-----------------------------------------------------------------------------
(* FX conversion *)

\* strictly before the date: a rate dated on the expense's day is not used
RateSubsetStrict(rts, date, currency) ==
    {k \in DOMAIN rts : rts[k].Currency = currency /\ rts[k].Date < date}

\* no date filter: falls back on later rates
RateSubsetAnyDate(rts, date, currency) ==
    {k \in DOMAIN rts : rts[k].Currency = currency}

\* rows matching the currency, dated on or before the date
RateSubset(rts, date, currency) ==
    {k \in DOMAIN rts : rts[k].Currency = currency /\ rts[k].Date <= date}

\* takes the first row of the sorted subset instead of the last
FirstByDate(rts, S) ==
    {k \in S : \A m \in S : rts[m].Date >= rts[k].Date}

\* rows that sort_values("Date") may leave in last position
LastByDate(rts, S) ==
    {k \in S : \A m \in S : rts[m].Date <= rts[k].Date}

\* the rates row get_rate_on_or_before reads its result from: 0 when it
\* returns 1.0 for the base currency without reading the table, no row when
\* it raises, several when rows of the currency tie on the latest date
RateRows(rts, date, currency) ==
    IF currency = BASE_CURRENCY THEN {0}
    ELSE LastByDate(rts, RateSubset(rts, date, currency))

RateOfRow(rts, r) == IF r = 0 THEN One ELSE rts[r].Rate_to_Base

\* the values get_rate_on_or_before can return
get_rate_on_or_before(rts, date, currency) ==
    {RateOfRow(rts, r) : r \in RateRows(rts, date, currency)}

\* truncates to whole VND
AmountBaseTrunc(amount, rate) == RoundTrunc(amount * rate, RateDen)

\* (Amount * rate).round(0).astype(int)
AmountBase(amount, rate) == RoundHalfEven(amount * rate, RateDen)

ConvertRaises == \E k \in DOMAIN expenses :
                    RateRows(rates, expenses[k].Date, expenses[k].Currency) = {}

\* the exception leaves the stage (and the preview block's try): every
\* output name is bound to None
Fail(kind) ==
    /\ pc' = "error"
    /\ err' = kind
    /\ produced' = {}
    /\ expenses_vnd' = <<>>
    /\ allocations' = <<>>
    /\ balances' = <<>>
    /\ fx' = <<>>
    /\ use_weight' = <<>>
    /\ UNCHANGED <<inputs, eps, settleVars>>

\* the column is assigned on the table itself: the caller's table gains it
CallerExpensesAliased(before, out) == out

\* expenses = expenses.copy(): the Amount_Base column is assigned on the copy,
\* the table the caller passed keeps its columns
CallerExpenses(before, out) == before

convert_expenses_to_base ==
    /\ pc = "convert"
    /\ ~ConvertRaises
    /\ \E row \in [DOMAIN expenses -> 0..Len(rates)] :
          /\ \A k \in DOMAIN expenses :
                row[k] \in RateRows(rates, expenses[k].Date, expenses[k].Currency)
          \* the sort is a function of the subset: two calls that filter the
          \* same rows read the same last row
          /\ \A k, m \in DOMAIN expenses :
                (/\ expenses[k].Currency # BASE_CURRENCY
                 /\ expenses[m].Currency # BASE_CURRENCY
                 /\ RateSubset(rates, expenses[k].Date, expenses[k].Currency)
                      = RateSubset(rates, expenses[m].Date, expenses[m].Currency))
                => row[k] = row[m]
          /\ fx' = [k \in DOMAIN expenses |->
                       [Row |-> row[k], Rate |-> RateOfRow(rates, row[k])]]
          /\ LET out == [k \in DOMAIN expenses |->
                            [ExpID |-> expenses[k].ExpID,
                             Date |-> expenses[k].Date,
                             Amount |-> expenses[k].Amount,
                             Currency |-> expenses[k].Currency,
                             Payer |-> expenses[k].Payer,
                             Amount_Base |-> AmountBase(expenses[k].Amount,
                                                        RateOfRow(rates, row[k]))]]
             IN /\ expenses_vnd' = out
                /\ expenses' = CallerExpenses(expenses, out)
    /\ produced' = produced \cup {"expenses_vnd"}
    /\ pc' = "allocate"
    /\ UNCHANGED <<participants, rates, splits, allocations, balances, eps,
                   settleVars, use_weight, err>>

convert_raises ==
    /\ pc = "convert"
    /\ ConvertRaises
    /\ Fail("ValueError: No FX rate found")

-----------------------------------------------------------------------------
(* Allocations *)

HasParticipant(name) == \E k \in DOMAIN participants : participants[k].Name = name

\* p_weights.get(name, 1.0)
PWeight(name) ==
    IF HasParticipant(name)
    THEN (CHOOSE r \in Range(participants) : r.Name = name).DefaultWeight
    ELSE UnknownWeight

\* UseWeight of one split row; 0 and "" are both falsy in the override test
resolve_weight(row) ==
    IF ~row.Included THEN 0
    ELSE IF row.WeightOverride # Blank /\ row.WeightOverride # 0
         THEN row.WeightOverride
         ELSE PWeight(row.Participant)

UseWeight(k) == resolve_weight(splits[k])

SplitsOf(id) == {k \in DOMAIN splits : splits[k].ExpID = id}

\* groupby("ExpID")["UseWeight"].transform("sum"), for the row's expense
WeightSum(id) == SumOver(SplitsOf(id), [k \in DOMAIN splits |-> UseWeight(k)])

HasExpense(id) == \E e \in DOMAIN expenses_vnd : expenses_vnd[e].ExpID = id

\* the Amount_Base joined on ExpID
JoinedAmountBase(id) ==
    (CHOOSE r \in Range(expenses_vnd) : r.ExpID = id).Amount_Base

\* Amount_Base * UseWeight / weight_sum is NaN or inf (no matching expense,
\* or a zero weight sum): astype(int) raises on it
ShareNonFinite(k) ==
    \/ ~HasExpense(splits[k].ExpID)
    \/ WeightSum(splits[k].ExpID) = 0

\* the share truncated instead of rounded
ShareBaseTrunc(amount_base, weight, weight_sum) ==
    RoundTrunc(amount_base * weight, weight_sum)

\* (Amount_Base * UseWeight / weight_sum).round(0).astype(int), weight_sum > 0
ShareBase(amount_base, weight, weight_sum) ==
    RoundHalfEven(amount_base * weight, weight_sum)

\* keeps the rows of weight zero as well
KeptNonNegative(weight) == weight >= 0

\* s[s["UseWeight"] > 0]
Kept(weight) == weight > 0

AllocRaises == \E k \in DOMAIN splits : ShareNonFinite(k)

compute_allocations ==
    /\ pc = "allocate"
    /\ ~AllocRaises
    /\ LET s == [k \in DOMAIN splits |->
                    [ExpID |-> splits[k].ExpID,
                     Participant |-> splits[k].Participant,
                     Share_Base |-> ShareBase(JoinedAmountBase(splits[k].ExpID),
                                              UseWeight(k),
                                              WeightSum(splits[k].ExpID))]]
       IN allocations' = SelectRows(s, [k \in DOMAIN splits |-> Kept(UseWeight(k))])
    /\ use_weight' = [k \in DOMAIN splits |-> UseWeight(k)]
    /\ produced' = produced \cup {"allocations"}
    /\ pc' = "balances"
    /\ UNCHANGED <<inputs, expenses_vnd, balances, eps, settleVars, fx, err>>

allocations_raises ==
    /\ pc = "allocate"
    /\ AllocRaises
    /\ Fail("IntCastingNaNError: Cannot convert non-finite values (NA or inf) to integer")

-----------------------------------------------------------------------------
(* Balances *)

\* counts only the expenses that were allocated to somebody
PaidBaseAllocated(name) ==
    SumOver({k \in DOMAIN expenses_vnd :
                /\ expenses_vnd[k].Payer = name
                /\ \E a \in DOMAIN allocations :
                      allocations[a].ExpID = expenses_vnd[k].ExpID},
            [k \in DOMAIN expenses_vnd |-> expenses_vnd[k].Amount_Base])

\* expenses.groupby("Payer")["Amount_Base"].sum(), 0 after fillna when absent
PaidBase(name) ==
    SumOver({k \in DOMAIN expenses_vnd : expenses_vnd[k].Payer = name},
            [k \in DOMAIN expenses_vnd |-> expenses_vnd[k].Amount_Base])

\* allocations.groupby("Participant")["Share_Base"].sum(), 0 when absent
OwedBase(name) ==
    SumOver({k \in DOMAIN allocations : allocations[k].Participant = name},
            [k \in DOMAIN allocations |-> allocations[k].Share_Base])

\* only the participants with some activity get a row
ActiveRoster ==
    SelectRows(participants,
               [k \in DOMAIN participants |->
                    \/ \E e \in DOMAIN expenses_vnd :
                          expenses_vnd[e].Payer = participants[k].Name
                    \/ \E a \in DOMAIN allocations :
                          allocations[a].Participant = participants[k].Name])

\* the rows of the balances table: all of participants[["Name"]]
BalanceRoster == participants

compute_balances ==
    /\ pc = "balances"
    /\ balances' =
          [k \in DOMAIN BalanceRoster |->
              [Participant |-> BalanceRoster[k].Name,
               Paid_Base |-> PaidBase(BalanceRoster[k].Name),
               Owed_Base |-> OwedBase(BalanceRoster[k].Name),
               Net_Base |-> PaidBase(BalanceRoster[k].Name)
                              - OwedBase(BalanceRoster[k].Name)]]
    /\ produced' = produced \cup {"balances"}
    /\ pc' = "settle"
    /\ UNCHANGED <<inputs, expenses_vnd, allocations, eps, settleVars, fx, use_weight, err>>

-----------------------------------------------------------------------------
(* Settlement *)

Injective(f) == \A a, b \in DOMAIN f : a # b => f[a] # f[b]

\* the ascending flag inverted: creditors smallest first, debtors nearest
\* zero first
SortedByInverted(S, desc) ==
    {p \in [1..Cardinality(S) -> S] :
        /\ Injective(p)
        /\ \A a, b \in 1..Cardinality(S) :
              a < b => IF desc
                       THEN balances[p[a]].Net_Base <= balances[p[b]].Net_Base
                       ELSE balances[p[a]].Net_Base >= balances[p[b]].Net_Base}

\* the orders sort_values can leave the rows S of the balances table in
\* (quicksort: rows with equal Net_Base come out in any order)
SortedBy(S, desc) ==
    {p \in [1..Cardinality(S) -> S] :
        /\ Injective(p)
        /\ \A a, b \in 1..Cardinality(S) :
              a < b => IF desc
                       THEN balances[p[a]].Net_Base >= balances[p[b]].Net_Base
                       ELSE balances[p[a]].Net_Base <= balances[p[b]].Net_Base}

WorkingCopy(p) ==
    [k \in DOMAIN p |-> [Participant |-> balances[p[k]].Participant,
                         Net_Base |-> balances[p[k]].Net_Base]]

\* lines 224-231: partition, sort, reset the cursors
settlement_begin ==
    /\ pc = "settle"
    /\ \E pc_ \in SortedBy({k \in DOMAIN balances : balances[k].Net_Base > 0}, TRUE),
          pd_ \in SortedBy({k \in DOMAIN balances : balances[k].Net_Base < 0}, FALSE) :
          /\ creditors' = WorkingCopy(pc_)
          /\ debtors' = WorkingCopy(pd_)
    /\ txns' = <<>>
    /\ i' = 0
    /\ j' = 0
    /\ iters' = 0
    /\ pc' = "loop"
    /\ UNCHANGED <<inputs, derived, eps, produced, fx, use_weight, err>>

\* pays the larger of the two sides
PayAmountMax(debtorNet, creditorNet) ==
    IF -debtorNet >= creditorNet THEN -debtorNet ELSE creditorNet

\* min(-debtor["Net_Base"], creditor["Net_Base"])
PayAmount(debtorNet, creditorNet) == Min(-debtorNet, creditorNet)

\* if pay_amount > eps
Emits(pay, e) == pay > e

\* rounds to tens: round(pay_amount, -1)
TxnAmountTens(pay) == 10 * RoundHalfEven(pay, 10)

\* int(round(pay_amount, 0))
TxnAmount(pay) == RoundHalfEven(pay, 1)

\* the debtor's name written in both columns
TransactionSelf(debtor, creditor, pay) ==
    [From |-> debtor.Participant, To |-> debtor.Participant,
     Amount_VND |-> TxnAmount(pay)]

\* payer and receiver swapped
TransactionReversed(debtor, creditor, pay) ==
    [From |-> creditor.Participant, To |-> debtor.Participant,
     Amount_VND |-> TxnAmount(pay)]

\* the row appended to txns
Transaction(debtor, creditor, pay) ==
    [From |-> debtor.Participant, To |-> creditor.Participant,
     Amount_VND |-> TxnAmount(pay)]

\* strict comparison: a row at exactly eps is not settled
SettledStrict(net, e) == Abs(net) < e

\* abs(Net_Base) <= eps
Settled(net, e) == Abs(net) <= e

\* creditors and debtors are .copy() of the filtered rows: the .at updates
\* of the loop land in the copies, the table passed in keeps its Net_Base
CallerBalances(before, debtorRows, creditorRows) == before

LoopCondition == i < Len(debtors) /\ j < Len(creditors)

\* one iteration of the while loop, lines 233-253
settlement_iteration ==
    /\ pc = "loop"
    /\ LoopCondition
    /\ iters < MaxIters
    /\ LET debtor == debtors[i + 1]
           creditor == creditors[j + 1]
           pay_amount == PayAmount(debtor.Net_Base, creditor.Net_Base)
           emit == Emits(pay_amount, eps)
           dNet == IF emit THEN debtor.Net_Base + pay_amount ELSE debtor.Net_Base
           cNet == IF emit THEN creditor.Net_Base - pay_amount ELSE creditor.Net_Base
       IN /\ txns' = IF emit
                     THEN Append(txns, Transaction(debtor, creditor, pay_amount))
                     ELSE txns
          /\ debtors' = [debtors EXCEPT ![i + 1].Net_Base = dNet]
          /\ creditors' = [creditors EXCEPT ![j + 1].Net_Base = cNet]
          /\ balances' = CallerBalances(balances, debtors', creditors')
          /\ i' = IF Settled(dNet, eps) THEN i + 1 ELSE i
          /\ j' = IF Settled(cNet, eps) THEN j + 1 ELSE j
    /\ iters' = iters + 1
    /\ UNCHANGED <<inputs, expenses_vnd, allocations, eps, produced, fx, use_weight, err, pc>>

\* the loop condition fails: return pd.DataFrame(txns)
settlement_return ==
    /\ pc = "loop"
    /\ ~LoopCondition
    /\ pc' = "done"
    /\ produced' = produced \cup {"settlement"}
    /\ UNCHANGED <<inputs, derived, eps, settleVars, fx, use_weight, err>>

-----------------------------------------------------------------------------
(* compute_settlement called on its own, on any table of integer balances *)

MaxEps == 2

SettleNames == <<"A", "B", "C", "D">>

EpsValues == (-1)..MaxEps

\* tables of larger balances, beside all the tables of small ones
LargeNets == {<<30, 10, -40>>, <<10, 30, -40>>, <<-40, 20, 20>>}

InitSettle ==
    /\ participants = <<>>
    /\ rates = <<>>
    /\ expenses = <<>>
    /\ splits = <<>>
    /\ expenses_vnd = <<>>
    /\ allocations = <<>>
    /\ \E net \in [DOMAIN SettleNames -> (-MaxNet)..MaxNet] \cup LargeNets :
          balances = [k \in DOMAIN net |->
                         [Participant |-> SettleNames[k], Net_Base |-> net[k]]]
    /\ eps \in EpsValues
    /\ creditors = <<>>
    /\ debtors = <<>>
    /\ i = 0
    /\ j = 0
    /\ txns = <<>>
    /\ iters = 0
    /\ produced = {}
    /\ fx = <<>>
    /\ use_weight = <<>>
    /\ err = ""
    /\ pc = "settle"

NextSettle == settlement_begin \/ settlement_iteration \/ settlement_return

SettleSpec == InitSettle /\ [][NextSettle]_vars

\* the interpreter keeps running the loop: no step is postponed forever
FairSettleSpec == SettleSpec /\ WF_vars(NextSettle)

-----------------------------------------------------------------------------
(* Properties of the settlement *)

\* what the transactions paid out by, and paid to, a participant add up to
PaidOut(name) ==
    SumOver({k \in DOMAIN txns : txns[k].From = name},
            [k \in DOMAIN txns |-> txns[k].Amount_VND])

Received(name) ==
    SumOver({k \in DOMAIN txns : txns[k].To = name},
            [k \in DOMAIN txns |-> txns[k].Amount_VND])

\* Net_Base of row k of balances once every emitted transaction is applied
Applied(k) ==
    balances[k].Net_Base + PaidOut(balances[k].Participant)
                         - Received(balances[k].Participant)

NetSum == SumOver(DOMAIN balances, [k \in DOMAIN balances |-> balances[k].Net_Base])

DebtorRows == {k \in DOMAIN balances : balances[k].Net_Base < 0}

CreditorRows == {k \in DOMAIN balances : balances[k].Net_Base > 0}

\* C2 as stated: for every balances table and every eps >= 0, applying the
\* emitted transactions leaves every participant's net within eps of zero.
C2_AllWithinEps ==
    (pc = "done" /\ eps >= 0) =>
        \A k \in DOMAIN balances : Abs(Applied(k)) <= eps

\* C2 amended: for every eps >= 0, applying the emitted transactions leaves
\* every debtor, or every creditor, within eps of zero; every participant is
\* left at exactly zero when the nets sum to zero and eps = 0.
C2_OneSideWithinEps ==
    (pc = "done" /\ eps >= 0) =>
        /\ \/ \A k \in DebtorRows : Abs(Applied(k)) <= eps
           \/ \A k \in CreditorRows : Abs(Applied(k)) <= eps
        /\ (NetSum = 0 /\ eps = 0) =>
              \A k \in DOMAIN balances : Applied(k) = 0

\* a run where both sides have rows, something was paid, and a residual
\* beyond eps is left on one side
C2_Witness ==
    /\ pc = "done"
    /\ eps >= 0
    /\ Len(txns) >= 2
    /\ \E k \in DOMAIN balances : Abs(Applied(k)) > eps

\* a balanced table settled to exactly zero with eps = 0
C2_WitnessBalanced ==
    /\ pc = "done"
    /\ eps = 0
    /\ NetSum = 0
    /\ Len(txns) >= 3

IterationBound == iters <= Len(debtors) + Len(creditors)

IterationAdvances == settlement_iteration => (i' > i \/ j' > j)

\* C3 as stated: for every integer eps, the loop runs at most
\* len(debtors) + len(creditors) iterations and each advances a cursor.
C3_EveryEps ==
    /\ [](pc \in {"loop", "done"} => IterationBound)
    /\ [][IterationAdvances]_vars

\* C3 amended: for every integer eps >= 0, the loop terminates after at most
\* len(debtors) + len(creditors) iterations and each iteration advances at
\* least one of the cursors i, j.
C3_NonNegativeEps ==
    /\ []((eps >= 0 /\ pc \in {"loop", "done"}) => IterationBound)
    /\ [][eps >= 0 => IterationAdvances]_vars
    /\ (eps >= 0) ~> (pc = "done")

\* the loop ran one iteration per row but the last, each advancing exactly
\* one cursor, and returned
C3_Witness ==
    /\ pc = "done"
    /\ eps >= 0
    /\ iters = Len(debtors) + Len(creditors) - 1
    /\ iters >= 3

\* C10: for eps >= 0 every emitted transaction has a strictly positive
\* integer amount.
C10_PositiveAmounts ==
    eps >= 0 => \A k \in DOMAIN txns : txns[k].Amount_VND \in Nat \ {0}

C10_Witness ==
    /\ pc = "done"
    /\ eps >= 0
    /\ Len(txns) >= 3
    /\ \E k \in DOMAIN txns : txns[k].Amount_VND = 1

-----------------------------------------------------------------------------
(* convert_expenses_to_base called on its own *)

\* rates other than 1.0, as numerators over RateDen
RateNums == {3, 6}

Dates == 1..MaxDate

Expense(id, date, amount, currency, payer) ==
    [ExpID |-> id, Date |-> date, Amount |-> amount, Currency |-> currency,
     Payer |-> payer]

Rate(date, currency, rate) ==
    [Date |-> date, Currency |-> currency, Rate_to_Base |-> rate]

\* up to two rows of a foreign currency, then possibly a row of the base
\* currency (which the editor does not force to 1)
ConvertRateTables ==
    LET usd == {Rate(d, "USD", r) : d \in Dates, r \in RateNums}
        vnd == {Rate(d, "VND", r) : d \in Dates, r \in {One, 6}}
        usdPart == {<<>>} \cup {<<a>> : a \in usd} \cup {<<a, b>> : a \in usd, b \in usd}
    IN usdPart \cup {t \o <<v>> : t \in usdPart, v \in vnd}

ConvertExpenseTables ==
    LET first == {Expense("E1", d, a, c, "A") :
                     d \in Dates, a \in (-1)..MaxAmount, c \in {"VND", "USD"}}
        second == {Expense("E2", d, 2, c, "A") : d \in Dates, c \in {"VND", "USD"}}
    IN {<<a>> : a \in first} \cup {<<a, b>> : a \in first, b \in second}

NoSettlement ==
    /\ eps = DefaultEps
    /\ creditors = <<>>
    /\ debtors = <<>>
    /\ i = 0
    /\ j = 0
    /\ txns = <<>>
    /\ iters = 0

InitConvert ==
    /\ participants = <<>>
    /\ splits = <<>>
    /\ rates \in ConvertRateTables
    /\ expenses \in ConvertExpenseTables
    /\ expenses_vnd = <<>>
    /\ allocations = <<>>
    /\ balances = <<>>
    /\ NoSettlement
    /\ produced = {}
    /\ fx = <<>>
    /\ use_weight = <<>>
    /\ err = ""
    /\ pc = "convert"

NextConvert == convert_expenses_to_base \/ convert_raises

ConvertSpec == InitConvert /\ [][NextConvert]_vars

-----------------------------------------------------------------------------
(* Properties of the conversion *)

Converted == pc = "allocate"

RowsOfCurrency(currency) == {k \in DOMAIN rates : rates[k].Currency = currency}

DistinctDates(currency) ==
    \A a, b \in RowsOfCurrency(currency) : a # b => rates[a].Date # rates[b].Date

\* C8: the base currency resolves to exactly 1.0 whatever the rates table
\* holds; another currency whose rows have distinct dates resolves to the
\* rate of its row with the greatest date <= the requested date, never to a
\* row dated after it.
C8_ResolvedRate ==
    Converted =>
        \A k \in DOMAIN expenses :
            LET e == expenses[k]
                r == fx[k].Row
            IN /\ e.Currency = BASE_CURRENCY => fx[k].Rate = One
               /\ (e.Currency # BASE_CURRENCY /\ DistinctDates(e.Currency)) =>
                     /\ r \in RowsOfCurrency(e.Currency)
                     /\ rates[r].Date <= e.Date
                     /\ \A m \in RowsOfCurrency(e.Currency) :
                           rates[m].Date <= e.Date => rates[m].Date <= rates[r].Date
                     /\ fx[k].Rate = rates[r].Rate_to_Base

\* a base-currency expense converted although the table holds a base row
\* that is not 1, next to a foreign expense dated between two rows of its
\* currency that carry different rates
C8_Witness ==
    /\ Converted
    /\ \E k \in DOMAIN expenses, v \in DOMAIN rates :
          /\ expenses[k].Currency = BASE_CURRENCY
          /\ rates[v].Currency = BASE_CURRENCY
          /\ rates[v].Rate_to_Base # One
          /\ rates[v].Date <= expenses[k].Date
    /\ \E k \in DOMAIN expenses, a, b \in DOMAIN rates :
          /\ expenses[k].Currency = "USD"
          /\ rates[a].Currency = "USD"
          /\ rates[b].Currency = "USD"
          /\ rates[a].Date <= expenses[k].Date
          /\ rates[b].Date > expenses[k].Date
          /\ rates[a].Rate_to_Base # rates[b].Rate_to_Base

\* C9: every Amount_Base is an integer within 0.5 of Amount * rate, and is
\* >= 0 whenever Amount >= 0 and the rate is positive.
C9_AmountBaseNearest ==
    Converted =>
        \A k \in DOMAIN expenses_vnd :
            LET exact == expenses[k].Amount * fx[k].Rate  \* times RateDen
                ab == expenses_vnd[k].Amount_Base
            IN /\ ab \in Int
               /\ 2 * Abs(RateDen * ab - exact) <= RateDen
               /\ (expenses[k].Amount >= 0 /\ fx[k].Rate > 0) => ab >= 0

\* a positive amount whose product with the rate is not whole and was
\* rounded up
C9_Witness ==
    /\ Converted
    /\ \E k \in DOMAIN expenses_vnd :
          /\ expenses[k].Amount > 0
          /\ expenses[k].Currency # BASE_CURRENCY
          /\ RateDen * expenses_vnd[k].Amount_Base > expenses[k].Amount * fx[k].Rate

-----------------------------------------------------------------------------
(* compute_allocations and compute_balances called on converted expenses *)

Weights == {1, 2}

Participant(name, weight) == [Name |-> name, DefaultWeight |-> weight]

Split(id, name, included, override) ==
    [ExpID |-> id, Participant |-> name, Included |-> included,
     WeightOverride |-> override]

WithAmountBase(e, amount_base) ==
    [ExpID |-> e.ExpID, Date |-> e.Date, Amount |-> e.Amount,
     Currency |-> e.Currency, Payer |-> e.Payer, Amount_Base |-> amount_base]

\* no row, or one row of expense id for the participant
OptionalSplit(id, name, overrides) ==
    {<<>>} \cup {<<Split(id, name, inc, o)>> : inc \in BOOLEAN, o \in overrides}

\* E1 is split among roster members and possibly "Z", who is not in the
\* roster; E2, when present, has no split, one excluded split, or two
AllocSplitTables(withE2) ==
    LET e1 == {a \o b \o c \o z :
                  a \in OptionalSplit("E1", "A", {Blank, 0, 2}),
                  b \in OptionalSplit("E1", "B", {Blank, 0, 2}),
                  c \in OptionalSplit("E1", "C", {Blank, 0, 2}),
                  z \in {<<>>, <<Split("E1", "Z", TRUE, Blank)>>}}
        e2 == IF withE2
              THEN {<<>>, <<Split("E2", "A", FALSE, Blank)>>,
                    <<Split("E2", "A", TRUE, Blank), Split("E2", "B", TRUE, Blank)>>}
              ELSE {<<>>}
    IN {x \o y : x \in e1, y \in e2}

InitAlloc ==
    /\ \E wA \in Weights, wB \in Weights :
          participants = <<Participant("A", wA), Participant("B", wB),
                           Participant("C", 1)>>
    /\ rates = <<>>
    /\ \E amount \in 0..MaxAmount, payer \in {"A", "Z"}, withE2 \in BOOLEAN :
          /\ expenses = <<Expense("E1", 1, amount, "VND", payer)>>
                          \o (IF withE2 THEN <<Expense("E2", 1, 3, "VND", "B")>>
                                        ELSE <<>>)
          /\ splits \in AllocSplitTables(withE2)
    /\ expenses_vnd = [k \in DOMAIN expenses |->
                          WithAmountBase(expenses[k], expenses[k].Amount)]
    /\ fx = [k \in DOMAIN expenses |-> [Row |-> 0, Rate |-> One]]
    /\ use_weight = <<>>
    /\ allocations = <<>>
    /\ balances = <<>>
    /\ NoSettlement
    /\ produced = {"expenses_vnd"}
    /\ err = ""
    /\ pc = "allocate"

NextAlloc == compute_allocations \/ allocations_raises \/ compute_balances

AllocSpec == InitAlloc /\ [][NextAlloc]_vars

-----------------------------------------------------------------------------
(* Properties of allocations and balances *)

Allocated == pc \in {"balances", "settle", "loop", "done"}

Balanced == pc \in {"settle", "loop", "done"}

\* sum of Amount_Base over the expenses paid by name, row by row
SumPaid(name) ==
    LET f[n \in 0..Len(expenses_vnd)] ==
            IF n = 0 THEN 0
            ELSE f[n - 1] + (IF expenses_vnd[n].Payer = name
                             THEN expenses_vnd[n].Amount_Base ELSE 0)
    IN f[Len(expenses_vnd)]

\* sum of Share_Base over the allocation rows of name, row by row
SumOwed(name) ==
    LET f[n \in 0..Len(allocations)] ==
            IF n = 0 THEN 0
            ELSE f[n - 1] + (IF allocations[n].Participant = name
                             THEN allocations[n].Share_Base ELSE 0)
    IN f[Len(allocations)]

\* sum of Share_Base over the allocation rows of expense id, row by row
SumShares(id) ==
    LET f[n \in 0..Len(allocations)] ==
            IF n = 0 THEN 0
            ELSE f[n - 1] + (IF allocations[n].ExpID = id
                             THEN allocations[n].Share_Base ELSE 0)
    IN f[Len(allocations)]

\* C4: balances has exactly one row per participant of the roster, in which
\* Paid_Base is the sum of Amount_Base over the expenses the participant
\* paid, Owed_Base the sum of Share_Base over the participant's allocations,
\* and Net_Base = Paid_Base - Owed_Base, all integers.
C4_BalanceRows ==
    Balanced =>
        /\ Len(balances) = Len(participants)
        /\ \A k \in DOMAIN balances :
              /\ balances[k].Participant = participants[k].Name
              /\ balances[k].Paid_Base = SumPaid(participants[k].Name)
              /\ balances[k].Owed_Base = SumOwed(participants[k].Name)
              /\ balances[k].Net_Base = balances[k].Paid_Base - balances[k].Owed_Base
              /\ balances[k].Paid_Base \in Int
              /\ balances[k].Owed_Base \in Int
              /\ balances[k].Net_Base \in Int

\* a participant with no activity next to one who paid and owes, and one
\* who owes on two expenses
C4_Witness ==
    /\ Balanced
    /\ \E k \in DOMAIN balances :
          /\ balances[k].Paid_Base = 0
          /\ balances[k].Owed_Base = 0
          /\ \A e \in DOMAIN expenses_vnd : expenses_vnd[e].Payer # balances[k].Participant
          /\ \A a \in DOMAIN allocations : allocations[a].Participant # balances[k].Participant
    /\ \E k \in DOMAIN balances : balances[k].Paid_Base > 0 /\ balances[k].Owed_Base > 0
    /\ \E a, b \in DOMAIN allocations :
          /\ a # b
          /\ allocations[a].Participant = allocations[b].Participant
          /\ allocations[a].Share_Base > 0
          /\ allocations[b].Share_Base > 0

IncludedPositive(id) ==
    \E k \in DOMAIN splits :
        /\ splits[k].ExpID = id
        /\ splits[k].Included
        /\ resolve_weight(splits[k]) > 0

SplitCount(id) == Cardinality({k \in DOMAIN splits : splits[k].ExpID = id})

\* C5: for every expense with an included split of positive effective
\* weight, the shares allocated for it sum to within 0.5 * split_count of
\* its Amount_Base.
C5_ShareSumDrift ==
    Allocated =>
        \A e \in DOMAIN expenses_vnd :
            IncludedPositive(expenses_vnd[e].ExpID) =>
                2 * Abs(SumShares(expenses_vnd[e].ExpID) - expenses_vnd[e].Amount_Base)
                    <= SplitCount(expenses_vnd[e].ExpID)

\* an expense shared three ways whose rounded shares do not add up to it
C5_Witness ==
    /\ Allocated
    /\ \E e \in DOMAIN expenses_vnd :
          /\ IncludedPositive(expenses_vnd[e].ExpID)
          /\ SplitCount(expenses_vnd[e].ExpID) >= 3
          /\ SumShares(expenses_vnd[e].ExpID) # expenses_vnd[e].Amount_Base

\* some expense has split rows whose effective weights sum to 0
ZeroWeightExpense ==
    \E e \in DOMAIN expenses :
        /\ SplitCount(expenses[e].ExpID) >= 1
        /\ \A k \in DOMAIN splits :
              splits[k].ExpID = expenses[e].ExpID => resolve_weight(splits[k]) = 0

\* C6: when some expense has splits but a zero weight sum, allocate fails
\* with an explicit allocation error and returns no allocation table.
C6_ExplicitAllocationError ==
    (ZeroWeightExpense /\ pc # "allocate") =>
        /\ pc = "error"
        /\ err = "AllocationError"
        /\ "allocations" \notin produced

-----------------------------------------------------------------------------
(* The pipeline run: convert -> allocate -> balances -> settle *)

MaxSplitRows == 3

PipelineAmounts == {2, 3, 100000}

PipelineRosters ==
    {<<Participant("A", a), Participant("B", b)>> : a \in Weights, b \in Weights}
    \cup {<<Participant("A", 1), Participant("B", 1), Participant("C", c)>> : c \in Weights}

PipelineRateTables ==
    {<<Rate(2, "USD", 6)>>, <<Rate(1, "USD", 3), Rate(2, "USD", 6)>>}

PipelineExpenseTables ==
    LET first == {Expense("E1", cd[2], a, cd[1], p) :
                     cd \in {<<"VND", 1>>, <<"USD", 1>>, <<"USD", 2>>},
                     a \in PipelineAmounts, p \in {"A", "B"}}
    IN {<<e>> : e \in first}
       \cup {<<e, Expense("E2", 2, 3, "VND", "B")>> : e \in first}

PipelineOptionalSplit(id, name) ==
    {<<>>, <<Split(id, name, FALSE, Blank)>>, <<Split(id, name, TRUE, Blank)>>,
     <<Split(id, name, TRUE, 2)>>}

PipelineSplitsOf(id, roster) ==
    {a \o b \o c :
        a \in PipelineOptionalSplit(id, "A"),
        b \in PipelineOptionalSplit(id, "B"),
        c \in IF Len(roster) = 3 THEN PipelineOptionalSplit(id, "C") ELSE {<<>>}}

PipelineSplitTables(exps, roster) ==
    {t \in {x \o y : x \in PipelineSplitsOf("E1", roster),
                     y \in IF Len(exps) = 2 THEN PipelineSplitsOf("E2", roster)
                                            ELSE {<<>>}} :
        Len(t) <= MaxSplitRows}

Init ==
    /\ participants \in PipelineRosters
    /\ rates \in PipelineRateTables
    /\ expenses \in PipelineExpenseTables
    /\ splits \in PipelineSplitTables(expenses, participants)
    /\ expenses_vnd = <<>>
    /\ allocations = <<>>
    /\ balances = <<>>
    /\ NoSettlement
    /\ produced = {}
    /\ fx = <<>>
    /\ use_weight = <<>>
    /\ err = ""
    /\ pc = "convert"

Next ==
    \/ convert_expenses_to_base
    \/ convert_raises
    \/ compute_allocations
    \/ allocations_raises
    \/ compute_balances
    \/ settlement_begin
    \/ settlement_iteration
    \/ settlement_return

Spec == Init /\ [][Next]_vars

-----------------------------------------------------------------------------
(* Properties of the pipeline *)

\* two participants A, B of equal default weight; a single expense of even
\* amount in the base currency paid by A; both included, no override
EvenSplitScenario ==
    /\ Len(participants) = 2
    /\ participants[1].Name = "A"
    /\ participants[2].Name = "B"
    /\ participants[1].DefaultWeight = participants[2].DefaultWeight
    /\ Len(expenses) = 1
    /\ expenses[1].Currency = BASE_CURRENCY
    /\ expenses[1].Payer = "A"
    /\ expenses[1].Amount % 2 = 0
    /\ splits = <<Split(expenses[1].ExpID, "A", TRUE, Blank),
                  Split(expenses[1].ExpID, "B", TRUE, Blank)>>

\* C1: in the even-split scenario with amount X the pipeline gives
\* Amount_Base = X, allocations {A: X/2, B: X/2}, balances A (X, X/2, X/2)
\* and B (0, X/2, -X/2), and, whenever X/2 > eps, exactly one transaction
\* from B to A of X/2.
C1_EvenSplit ==
    EvenSplitScenario =>
        LET X == expenses[1].Amount
            id == expenses[1].ExpID
            half == X \div 2
        IN /\ pc # "error"
           /\ pc # "convert" => /\ Len(expenses_vnd) = 1
                                /\ expenses_vnd[1].Amount_Base = X
           /\ Allocated =>
                 allocations = <<[ExpID |-> id, Participant |-> "A", Share_Base |-> half],
                                 [ExpID |-> id, Participant |-> "B", Share_Base |-> half]>>
           /\ Balanced =>
                 balances = <<[Participant |-> "A", Paid_Base |-> X,
                               Owed_Base |-> half, Net_Base |-> half],
                              [Participant |-> "B", Paid_Base |-> 0,
                               Owed_Base |-> half, Net_Base |-> -half]>>
           /\ (pc = "done" /\ half > eps) =>
                 txns = <<[From |-> "B", To |-> "A", Amount_VND |-> half]>>

\* the instance X = 100000: B pays A 50000
C1_Witness ==
    /\ EvenSplitScenario
    /\ pc = "done"
    /\ expenses[1].Amount = 100000
    /\ txns = <<[From |-> "B", To |-> "A", Amount_VND |-> 50000]>>

\* some expense is in a foreign currency with no rate row dated on or
\* before its date
MissingRate ==
    \E k \in DOMAIN expenses :
        /\ expenses[k].Currency # BASE_CURRENCY
        /\ \A r \in DOMAIN rates :
              rates[r].Currency = expenses[k].Currency => rates[r].Date > expenses[k].Date

\* C7: when some expense has no rate dated on or before its date, the
\* conversion fails with the rate-not-found error for the whole table and
\* the run produces none of the four output tables.
C7_NoRateNoOutput ==
    MissingRate =>
        /\ produced = {}
        /\ expenses_vnd = <<>>
        /\ allocations = <<>>
        /\ balances = <<>>
        /\ txns = <<>>
        /\ pc \in {"convert", "error"}
        /\ pc = "error" => err = "ValueError: No FX rate found"

\* the run failed on an expense that only has a later rate, although the
\* other expense of the table was convertible
C7_Witness ==
    /\ pc = "error"
    /\ MissingRate
    /\ \E k \in DOMAIN expenses, r \in DOMAIN rates :
          /\ rates[r].Currency = expenses[k].Currency
          /\ rates[r].Date > expenses[k].Date
    /\ \E k \in DOMAIN expenses : expenses[k].Currency = BASE_CURRENCY

-----------------------------------------------------------------------------
(* Further properties of the conversion *)

\* expenses k and m are in one foreign currency, k dated no later than m, and
\* no rates row of that currency is dated after k's date and up to m's
NoRateBetween(k, m) ==
    /\ expenses[k].Currency # BASE_CURRENCY
    /\ expenses[m].Currency = expenses[k].Currency
    /\ expenses[k].Date <= expenses[m].Date
    /\ \A r \in RowsOfCurrency(expenses[k].Currency) :
          ~(expenses[k].Date < rates[r].Date /\ rates[r].Date <= expenses[m].Date)

\* C13: for a non-base currency and dates d1 <= d2 with no rates row of the
\* currency dated in (d1, d2], the rate resolved for d2 is the rate resolved
\* for d1, and the lookup for d2 fails exactly when the one for d1 fails
\* (then neither date has a row of the currency on or before it).
C13_RateMonotonic ==
    \A k, m \in DOMAIN expenses :
        NoRateBetween(k, m) =>
            /\ Converted => /\ fx[k].Rate = fx[m].Rate
                            /\ fx[k].Row = fx[m].Row
            /\ (pc = "error" /\ DOMAIN expenses = {k, m}) =>
                  \A r \in RowsOfCurrency(expenses[k].Currency) :
                      rates[r].Date > expenses[m].Date

\* two expenses of one currency on different days converted at the same rate,
\* from a table that holds a later rate of that currency which neither uses
C13_Witness ==
    /\ Converted
    /\ \E k, m \in DOMAIN expenses :
          /\ NoRateBetween(k, m)
          /\ expenses[k].Date < expenses[m].Date
          /\ fx[k].Rate = fx[m].Rate
          /\ \E r \in RowsOfCurrency(expenses[k].Currency) :
                /\ rates[r].Date > expenses[m].Date
                /\ rates[r].Rate_to_Base # fx[k].Rate

\* both lookups fail: the only rows of the currency are dated after both days
C13_WitnessFails ==
    /\ pc = "error"
    /\ Len(expenses) = 2
    /\ NoRateBetween(1, 2)
    /\ expenses[1].Date < expenses[2].Date
    /\ RowsOfCurrency(expenses[1].Currency) # {}

-----------------------------------------------------------------------------
(* Further properties of the settlement *)

UniqueNames == \A a, b \in DOMAIN balances :
                  a # b => balances[a].Participant # balances[b].Participant

\* C11: with unique participant names, no transaction of the settlement pays
\* a participant to themselves: From and To always differ.
C11_NoSelfPayment ==
    UniqueNames => \A k \in DOMAIN txns : txns[k].From # txns[k].To

\* a finished settlement of three transactions over a table in which every
\* participant is a debtor or a creditor
C11_Witness ==
    /\ pc = "done"
    /\ UniqueNames
    /\ Len(txns) >= 3
    /\ \A k \in DOMAIN balances : balances[k].Net_Base # 0

\* one debtor, every creditor above eps, and the credits add up to the debt
SingleDebtorCase ==
    /\ eps >= 0
    /\ Cardinality(DebtorRows) = 1
    /\ CreditorRows # {}
    /\ \A k \in CreditorRows : balances[k].Net_Base > eps
    /\ NetSum = 0

NameOfRow(k) == balances[k].Participant

\* C12: for a single debtor and k creditors, each above eps and adding up to
\* the debt, the settlement is exactly k transactions, all paid by the debtor,
\* one to each creditor for exactly that creditor's balance, in non-increasing
\* order of amount; the nets +30, +10, -40 give the two transactions 30, 10.
C12_LargestFirst ==
    (pc = "done" /\ SingleDebtorCase) =>
        /\ Len(txns) = Cardinality(CreditorRows)
        /\ \A n \in DOMAIN txns :
              /\ \E d \in DebtorRows : txns[n].From = NameOfRow(d)
              /\ \E c \in CreditorRows :
                    /\ txns[n].To = NameOfRow(c)
                    /\ txns[n].Amount_VND = balances[c].Net_Base
        /\ \A n, m \in DOMAIN txns :
              n < m => /\ txns[n].Amount_VND >= txns[m].Amount_VND
                       /\ txns[n].To # txns[m].To
        /\ (Len(balances) = 3 /\ balances[3].Net_Base = -40
              /\ {balances[1].Net_Base, balances[2].Net_Base} = {10, 30}) =>
                 /\ Len(txns) = 2
                 /\ txns[1].Amount_VND = 30
                 /\ txns[2].Amount_VND = 10
                 /\ txns[1].Amount_VND + txns[2].Amount_VND = 40

\* the settlement of +30, +10, -40 has returned its two transactions
C12_Witness ==
    /\ pc = "done"
    /\ SingleDebtorCase
    /\ balances[1].Net_Base = 30
    /\ balances[2].Net_Base = 10
    /\ txns = <<[From |-> "C", To |-> "A", Amount_VND |-> 30],
                [From |-> "C", To |-> "B", Amount_VND |-> 10]>>

\* three creditors of a single debtor, all paid
C12_WitnessThree ==
    /\ pc = "done"
    /\ SingleDebtorCase
    /\ Cardinality(CreditorRows) = 3
    /\ Len(txns) = 3

\* the creditors' total equals the debtors' total
BalancedTotals == NetSum = 0

\* C15 as stated: when the creditors' total equals the debtors' total, the
\* settlement leaves no participant with a residual beyond eps.
C15_BalancedNoResidual ==
    (pc = "done" /\ eps >= 0 /\ BalancedTotals) =>
        \A k \in DOMAIN balances : Abs(Applied(k)) <= eps

\* C15, amended: with equal totals the residual left with a participant is
\* at most eps times the number of participants on the opposite side, hence
\* none at all with eps = 0; a participant who was neither debtor nor
\* creditor stays at zero.
C15_ResidualBound ==
    (pc = "done" /\ eps >= 0 /\ BalancedTotals) =>
        /\ \A k \in DebtorRows :
              /\ Applied(k) <= 0
              /\ -Applied(k) <= eps * Cardinality(CreditorRows)
        /\ \A k \in CreditorRows :
              /\ Applied(k) >= 0
              /\ Applied(k) <= eps * Cardinality(DebtorRows)
        /\ \A k \in DOMAIN balances \ (DebtorRows \cup CreditorRows) :
              Applied(k) = 0

\* equal totals, eps = 1, and a creditor left with three times eps: each of
\* the three debtors owed no more than eps, so nothing was paid
C15_Witness ==
    /\ pc = "done"
    /\ eps = 1
    /\ BalancedTotals
    /\ Cardinality(DebtorRows) = 3
    /\ \E k \in CreditorRows : Applied(k) = 3 * eps

-----------------------------------------------------------------------------
(* Further properties of the allocations and balances *)

\* the default weight of the roster row of name, found by scanning the roster
RosterWeight(name) ==
    LET rows == {k \in DOMAIN participants : participants[k].Name = name}
    IN IF rows = {} THEN UnknownWeight
       ELSE participants[CHOOSE k \in rows : TRUE].DefaultWeight

\* the weight the rule gives a split row: an override counts whenever the
\* cell is not blank
StatedWeight(row) ==
    IF ~row.Included THEN 0
    ELSE IF row.WeightOverride # Blank THEN row.WeightOverride
    ELSE RosterWeight(row.Participant)

\* C16: the effective weight of a split row is 0 when it is not included,
\* otherwise its weight override whenever one is present and non-blank,
\* otherwise the participant's default weight, otherwise 1 when the
\* participant is not in the roster.
C16_EffectiveWeight ==
    Allocated => \A k \in DOMAIN splits : use_weight[k] = StatedWeight(splits[k])

\* the same, for the rows whose override is blank or not zero
EffectiveWeightOfNonZeroOverride ==
    Allocated =>
        \A k \in DOMAIN splits :
            splits[k].WeightOverride # 0 => use_weight[k] = StatedWeight(splits[k])

\* the split rows resolved to a positive weight
PositiveRows == {k \in DOMAIN splits : use_weight[k] > 0}

\* the n-th of them in row order
NthPositiveRow(n) ==
    CHOOSE k \in PositiveRows : Cardinality({m \in PositiveRows : m <= k}) = n

\* sum of the resolved weights over the splits of expense id, row by row
SumWeights(id) ==
    LET f[n \in 0..Len(splits)] ==
            IF n = 0 THEN 0
            ELSE f[n - 1] + (IF splits[n].ExpID = id THEN use_weight[n] ELSE 0)
    IN f[Len(splits)]

AmountBaseOf(id) ==
    expenses_vnd[CHOOSE e \in DOMAIN expenses_vnd : expenses_vnd[e].ExpID = id].Amount_Base

\* share is an integer nearest to amount * weight / weightSum
NearestShare(share, amount, weight, weightSum) ==
    2 * Abs(share * weightSum - amount * weight) <= weightSum

\* C17: the allocations are exactly one row for each split row of effective
\* weight > 0, in row order, and none for a split of weight 0; each row's
\* Share_Base is Amount_Base * weight / weight_sum rounded to the nearest
\* integer on its own, weight_sum being the sum of the effective weights of
\* all splits of the same expense.
C17_AllocationRows ==
    Allocated =>
        /\ Len(allocations) = Cardinality(PositiveRows)
        /\ \A n \in DOMAIN allocations :
              LET k == NthPositiveRow(n)
              IN /\ allocations[n].ExpID = splits[k].ExpID
                 /\ allocations[n].Participant = splits[k].Participant
                 /\ NearestShare(allocations[n].Share_Base,
                                 AmountBaseOf(splits[k].ExpID),
                                 use_weight[k],
                                 SumWeights(splits[k].ExpID))

\* an expense of 5 shared by three rows of which one has weight 0: two rows
\* come out, and their independently rounded shares do not add up to 5
C17_Witness ==
    /\ Allocated
    /\ \E k \in DOMAIN splits : use_weight[k] = 0
    /\ Len(allocations) >= 2
    /\ Len(allocations) < Len(splits)
    /\ \E e \in DOMAIN expenses_vnd :
          /\ expenses_vnd[e].Amount_Base = 5
          /\ SumShares(expenses_vnd[e].ExpID) # 5

\* row-by-row totals of the three tables
TotalNet ==
    LET f[n \in 0..Len(balances)] ==
            IF n = 0 THEN 0 ELSE f[n - 1] + balances[n].Net_Base
    IN f[Len(balances)]

TotalAmountBase ==
    LET f[n \in 0..Len(expenses_vnd)] ==
            IF n = 0 THEN 0 ELSE f[n - 1] + expenses_vnd[n].Amount_Base
    IN f[Len(expenses_vnd)]

TotalShareBase ==
    LET f[n \in 0..Len(allocations)] ==
            IF n = 0 THEN 0 ELSE f[n - 1] + allocations[n].Share_Base
    IN f[Len(allocations)]

InRoster(name) == \E k \in DOMAIN participants : participants[k].Name = name

\* every payer and every split participant is in the roster, and every
\* expense has an included split of positive weight
ClosedTrip ==
    /\ \A e \in DOMAIN expenses_vnd : InRoster(expenses_vnd[e].Payer)
    /\ \A k \in DOMAIN splits : InRoster(splits[k].Participant)
    /\ \A e \in DOMAIN expenses_vnd :
          \E k \in DOMAIN splits :
              /\ splits[k].ExpID = expenses_vnd[e].ExpID
              /\ splits[k].Included
              /\ use_weight[k] > 0

\* no share needs rounding
SharesDivide ==
    \A k \in PositiveRows :
        (AmountBaseOf(splits[k].ExpID) * use_weight[k])
            % SumWeights(splits[k].ExpID) = 0

\* C18: when every payer and split participant is in the roster and every
\* expense has an included positive-weight split, the Net_Base of the balance
\* rows sum to the total Amount_Base minus the total Share_Base, which is at
\* most 0.5 * the number of split rows in magnitude, and exactly 0 when every
\* share divides without rounding.
C18_Conservation ==
    (Balanced /\ ClosedTrip) =>
        /\ TotalNet = TotalAmountBase - TotalShareBase
        /\ 2 * Abs(TotalNet) <= Len(splits)
        /\ SharesDivide => TotalNet = 0

\* balances of a closed trip of two expenses whose rounded shares leave a
\* total of 1 or more in either direction
C18_Witness ==
    /\ Balanced
    /\ ClosedTrip
    /\ Len(expenses_vnd) = 2
    /\ ~SharesDivide
    /\ Abs(TotalNet) >= 1

\* balances of a closed trip whose shares all divide: the nets sum to zero
\* although some are not zero
C18_WitnessExact ==
    /\ Balanced
    /\ ClosedTrip
    /\ SharesDivide
    /\ \E k \in DOMAIN balances : balances[k].Net_Base > 1

\* what the balances table holds for name: the debt or the credit given
InputDebt(name) ==
    SumOver({k \in DebtorRows : balances[k].Participant = name},
            [k \in DOMAIN balances |-> -balances[k].Net_Base])

InputCredit(name) ==
    SumOver({k \in CreditorRows : balances[k].Participant = name},
            [k \in DOMAIN balances |-> balances[k].Net_Base])

\* C19: for eps >= 0, at every iteration of the loop each debtor's running
\* balance stays <= 0 and each creditor's stays >= 0; what a participant pays
\* over all transactions never exceeds their input debt and what they
\* receive never exceeds their input credit.
C19_NoOvershoot ==
    (eps >= 0 /\ pc \in {"loop", "done"}) =>
        /\ \A d \in DOMAIN debtors : debtors[d].Net_Base <= 0
        /\ \A c \in DOMAIN creditors : creditors[c].Net_Base >= 0
        /\ \A k \in DOMAIN balances :
              /\ PaidOut(balances[k].Participant) <= InputDebt(balances[k].Participant)
              /\ Received(balances[k].Participant) <= InputCredit(balances[k].Participant)

\* the loop is over: a debtor has paid 2 or more and keeps a debt, and a
\* creditor was paid exactly their credit
C19_Witness ==
    /\ eps >= 0
    /\ pc = "done"
    /\ Len(txns) >= 2
    /\ \E d \in DOMAIN debtors :
          /\ debtors[d].Net_Base < 0
          /\ PaidOut(debtors[d].Participant) >= 2
    /\ \E k \in CreditorRows :
          Received(balances[k].Participant) = balances[k].Net_Base

TotalEmitted ==
    LET f[n \in 0..Len(txns)] ==
            IF n = 0 THEN 0 ELSE f[n - 1] + txns[n].Amount_VND
    IN f[Len(txns)]

TotalCredit ==
    LET f[n \in 0..Len(balances)] ==
            IF n = 0 THEN 0
            ELSE f[n - 1] + (IF balances[n].Net_Base > 0
                             THEN balances[n].Net_Base ELSE 0)
    IN f[Len(balances)]

\* C20: with eps = 0 and integer balances summing to exactly 0, applying the
\* emitted transactions drives every participant's net to exactly 0, and the
\* emitted amounts total the sum of the creditors' balances.
C20_ExactSettlement ==
    (pc = "done" /\ eps = 0 /\ BalancedTotals) =>
        /\ \A k \in DOMAIN balances : Applied(k) = 0
        /\ TotalEmitted = TotalCredit

\* two debtors and two creditors settled exactly in three transactions
C20_Witness ==
    /\ pc = "done"
    /\ eps = 0
    /\ BalancedTotals
    /\ Cardinality(DebtorRows) = 2
    /\ Cardinality(CreditorRows) = 2
    /\ Len(txns) = 3
    /\ TotalEmitted = TotalCredit
    /\ \A k \in DOMAIN balances : Applied(k) = 0

\* the expenses that no split row refers to
UnsplitExpenses ==
    {e \in DOMAIN expenses_vnd :
        \A k \in DOMAIN splits : splits[k].ExpID # expenses_vnd[e].ExpID}

\* row-by-row total of Amount_Base over the unsplit, or over the split, expenses
AmountBaseTotalOf(unsplit) ==
    LET f[n \in 0..Len(expenses_vnd)] ==
            IF n = 0 THEN 0
            ELSE f[n - 1] + (IF (n \in UnsplitExpenses) = unsplit
                             THEN expenses_vnd[n].Amount_Base ELSE 0)
    IN f[Len(expenses_vnd)]

\* every payer and every split participant has a row in the roster
RosterClosed ==
    /\ \A e \in DOMAIN expenses_vnd : InRoster(expenses_vnd[e].Payer)
    /\ \A k \in DOMAIN splits : InRoster(splits[k].Participant)

\* C21: an expense with no split row at all raises nothing in the allocation
\* (an error comes only from an expense whose split rows are all excluded)
\* and gets no allocation row, allocations existing only for expense ids that
\* occur in splits; it is counted in its payer's Paid_Base and in nobody's
\* Owed_Base, so the Net_Base of the roster sum to its Amount_Base more than
\* the split expenses leave: to exactly its Amount_Base when their shares
\* divide without rounding.
C21_UnsplitExpense ==
    /\ pc = "error" =>
          \E k \in DOMAIN splits :
              \A m \in DOMAIN splits :
                  splits[m].ExpID = splits[k].ExpID => ~splits[m].Included
    /\ Allocated =>
          \A a \in DOMAIN allocations :
              \E k \in DOMAIN splits : splits[k].ExpID = allocations[a].ExpID
    /\ Balanced =>
          /\ \A e \in UnsplitExpenses, b \in DOMAIN balances :
                balances[b].Participant = expenses_vnd[e].Payer =>
                    /\ balances[b].Paid_Base = SumPaid(expenses_vnd[e].Payer)
                    /\ balances[b].Paid_Base >= expenses_vnd[e].Amount_Base
          /\ \A b \in DOMAIN balances :
                balances[b].Owed_Base = SumOwed(balances[b].Participant)
          /\ RosterClosed =>
                /\ TotalNet = AmountBaseTotalOf(TRUE)
                                + (AmountBaseTotalOf(FALSE) - TotalShareBase)
                /\ SharesDivide => TotalNet = AmountBaseTotalOf(TRUE)

\* balances of two expenses, the second with no split row: the first is
\* shared exactly by two or more rows, the second is in nobody's share, and
\* the nets sum to the second's Amount_Base
C21_Witness ==
    /\ Balanced
    /\ RosterClosed
    /\ Len(expenses_vnd) = 2
    /\ UnsplitExpenses = {2}
    /\ Len(allocations) >= 2
    /\ SharesDivide
    /\ expenses_vnd[1].Amount_Base > 0
    /\ TotalNet = expenses_vnd[2].Amount_Base
    /\ TotalNet > 0

\* the splits table is empty: the expenses are all unsplit, nothing is
\* allocated and nothing raised
C21_WitnessNoSplits ==
    /\ Balanced
    /\ splits = <<>>
    /\ allocations = <<>>
    /\ Len(expenses_vnd) = 2
    /\ TotalNet > 3

-----------------------------------------------------------------------------
(* What the stages leave alone *)

\* the tables a step is passed: the four loaded tables always, and the tables
\* of the earlier stages that the running stage reads
StageFrame ==
    /\ participants' = participants
    /\ rates' = rates
    /\ expenses' = expenses
    /\ splits' = splits
    /\ (pc = "allocate" /\ pc' = "balances") => expenses_vnd' = expenses_vnd
    /\ pc = "balances" => /\ expenses_vnd' = expenses_vnd
                          /\ allocations' = allocations
    /\ pc \in {"settle", "loop"} => /\ balances' = balances
                                    /\ allocations' = allocations
                                    /\ expenses_vnd' = expenses_vnd

\* C14: every stage leaves the tables it is given unchanged, whether it
\* returns or raises: converting adds no Amount_Base column to the caller's
\* expenses, and the in-place debits and credits of the settlement do not
\* alter the Net_Base values of the balances table it was passed.
C14_InputsUnchanged == [][StageFrame]_vars

\* all four stages have run: the caller's expenses still have no Amount_Base
\* column while the converted copy has one, and a working row of the
\* settlement was debited or credited while the balances row kept its value
C14_Witness ==
    /\ pc = "done"
    /\ Len(txns) >= 1
    /\ \A k \in DOMAIN expenses :
          /\ "Amount_Base" \notin DOMAIN expenses[k]
          /\ "Amount_Base" \in DOMAIN expenses_vnd[k]
    /\ \E k \in DOMAIN balances, d \in DOMAIN debtors :
          /\ debtors[d].Participant = balances[k].Participant
          /\ debtors[d].Net_Base # balances[k].Net_Base
    /\ \E k \in DOMAIN balances, c \in DOMAIN creditors :
          /\ creditors[c].Participant = balances[k].Participant
          /\ creditors[c].Net_Base # balances[k].Net_Base

====
